---------------------------- MODULE Spec2Model ----------------------------
(***************************************************************************)
(* One computation pass of the stock dashboard script (src/app.py): the    *)
(* fetch of the price table, the CSV export, the moving-average columns,   *)
(* the daily percentage change traces, the sector aggregation and the      *)
(* summary table.                                                          *)
(*                                                                         *)
(* Numbers.  A float is a pair <<n, d>>: with d > 0 the rational n/d in    *)
(* lowest terms, <<0, 0>> is NaN (the null of a float column), <<1, 0>> is *)
(* +inf and <<-1, 0>> is -inf.  Arithmetic is exact on the rationals and   *)
(* follows IEEE 754 on the three special values; binary rounding error of  *)
(* the floats is not modelled.                                             *)
(***************************************************************************)
EXTENDS Integers, Sequences, FiniteSets, TLC

VARIABLES pc, symbols, ma_days, fill_method, all_data, csv, fig5,
          sector_changes, combined, sector_avg, summary_data

vars == <<pc, symbols, ma_days, fill_method, all_data, csv, fig5,
          sector_changes, combined, sector_avg, summary_data>>

----------------------------------------------------------------------------
(* Bounds of the model. *)

\* The fetched table holds at most MaxCells close prices (rows x symbols).
MaxCells == 6

\* Chart1Spec: the longest single-symbol close series.
MaxRowsMA == 8

----------------------------------------------------------------------------
(* Float arithmetic. *)

NaN == <<0, 0>>

Inf == <<1, 0>>

Abs(n) == IF n < 0 THEN -n ELSE n

Sgn(n) == IF n < 0 THEN -1 ELSE IF n = 0 THEN 0 ELSE 1

RECURSIVE GCD(_, _)
GCD(a, b) == IF b = 0 THEN a ELSE GCD(b, a % b)

Norm(n, d) ==
    IF d = 0 THEN <<Sgn(n), 0>>
    ELSE LET g == GCD(Abs(n), Abs(d))
         IN  <<(Sgn(d) * n) \div g, Abs(d) \div g>>

Num(k) == <<k, 1>>

IsNaN(x) == x = NaN

IsFinite(x) == x[2] # 0

Add(a, b) ==
    IF IsFinite(a) /\ IsFinite(b) THEN Norm(a[1] * b[2] + b[1] * a[2], a[2] * b[2])
    ELSE IF IsNaN(a) \/ IsNaN(b) THEN NaN
    ELSE IF IsFinite(a) THEN b
    ELSE IF IsFinite(b) THEN a
    ELSE IF a = b THEN a ELSE NaN

Neg(a) == <<-a[1], a[2]>>

Sub(a, b) == Add(a, Neg(b))

Mul(a, b) == Norm(a[1] * b[1], a[2] * b[2])

Div(a, b) ==
    IF ~IsFinite(b) THEN (IF IsNaN(b) \/ ~IsFinite(a) THEN NaN ELSE Num(0))
    ELSE IF b[1] = 0 THEN <<Sgn(a[1]), 0>>
    ELSE Mul(a, <<Sgn(b[1]) * b[2], Abs(b[1])>>)

\* a < b, for a and b that are not NaN.
Less(a, b) ==
    IF IsFinite(a) /\ IsFinite(b) THEN a[1] * b[2] < b[1] * a[2]
    ELSE IF IsFinite(a) THEN b = Inf
    ELSE IF IsFinite(b) THEN a = Neg(Inf)
    ELSE a = Neg(Inf) /\ b = Inf

RECURSIVE Pow10(_)
Pow10(k) == IF k = 0 THEN 1 ELSE 10 * Pow10(k - 1)

\* round(x, ndigits) of a numpy float: half to even; NaN and inf pass through.
Round(x, ndigits) ==
    IF ~IsFinite(x) THEN x
    ELSE LET p == Pow10(ndigits)
             n == x[1] * p
             q == n \div x[2]
             r == n % x[2]
             up == \/ 2 * r > x[2]
                   \/ 2 * r = x[2] /\ q % 2 = 1
         IN  Norm(IF up THEN q + 1 ELSE q, p)

----------------------------------------------------------------------------
(* The pandas reductions and transforms the script calls, with the         *)
(* defaults it leaves in place.                                            *)

\* The non-NaN entries of a sequence, in order (skipna=True).
DropNa(s) == SelectSeq(s, LAMBDA x : ~IsNaN(x))

RECURSIVE Sum(_)
Sum(s) == IF s = <<>> THEN Num(0) ELSE Add(Head(s), Sum(Tail(s)))

\* Series.mean() / DataFrame.mean(axis=1) on one row: NaN is skipped, an
\* empty or all-NaN input gives NaN.
NanMean(s) ==
    LET v == DropNa(s)
    IN  IF v = <<>> THEN NaN ELSE Div(Sum(v), Num(Len(v)))

RECURSIVE MinOf(_)
MinOf(s) ==
    IF Len(s) = 1 THEN s[1]
    ELSE LET m == MinOf(Tail(s)) IN IF Less(m, s[1]) THEN m ELSE s[1]

RECURSIVE MaxOf(_)
MaxOf(s) ==
    IF Len(s) = 1 THEN s[1]
    ELSE LET m == MaxOf(Tail(s)) IN IF Less(s[1], m) THEN m ELSE s[1]

\* Series.min() / Series.max(): NaN is skipped, empty or all-NaN gives NaN.
NanMin(s) == LET v == DropNa(s) IN IF v = <<>> THEN NaN ELSE MinOf(v)

NanMax(s) == LET v == DropNa(s) IN IF v = <<>> THEN NaN ELSE MaxOf(v)


\* Mutant of RollingMean: min_periods=1, a mean over whatever the window holds.
RollingMeanMinPeriods1(s, window) ==
    [i \in 1..Len(s) |->
        LET lo  == IF i - window + 1 < 1 THEN 1 ELSE i - window + 1
            obs == DropNa(SubSeq(s, lo, i))
        IN  IF Len(obs) >= 1 THEN Div(Sum(obs), Num(Len(obs))) ELSE NaN]

\* Series.rolling(window).mean() with pandas' defaults: min_periods is the
\* window, so an entry is NaN unless its window holds `window` non-NaN
\* observations.
RollingMean(s, window) ==
    [i \in 1..Len(s) |->
        LET lo  == IF i - window + 1 < 1 THEN 1 ELSE i - window + 1
            obs == DropNa(SubSeq(s, lo, i))
        IN  IF Len(obs) >= window THEN Div(Sum(obs), Num(Len(obs))) ELSE NaN]

\* Series.ffill(): a NaN takes the last non-NaN value before it, if any.
RECURSIVE FfillAt(_, _)
FfillAt(s, i) ==
    IF ~IsNaN(s[i]) THEN s[i]
    ELSE IF i = 1 THEN NaN
    ELSE FfillAt(s, i - 1)

Ffill(s) == [i \in 1..Len(s) |-> FfillAt(s, i)]

\* Series.shift(1).
Shift(s) == [i \in 1..Len(s) |-> IF i = 1 THEN NaN ELSE s[i - 1]]

\* Series.pct_change() as the script calls it, with no argument:
\* data / data.shift(1) - 1, where data is the series forward-filled when the
\* library's default fill_method is "pad" and the series itself when it is
\* None.  The script pins no pandas version, so the default is either.
PctChange(s, fm) ==
    LET data    == IF fm = "pad" THEN Ffill(s) ELSE s
        shifted == Shift(data)
    IN  [i \in 1..Len(s) |-> Sub(Div(data[i], shifted[i]), Num(1))]

FillMethods == {"pad", "none"}

\* Mutant of Times100: the scaling to percent left out.
TimesOne(s) == s

\* series * 100
Times100(s) == [i \in 1..Len(s) |-> Mul(s[i], Num(100))]

----------------------------------------------------------------------------
(* The script's constants. *)

\* The stock multiselect's options.
StockOptions ==
    <<"AAPL", "MSFT", "GOOGL", "AMZN", "TSLA", "META", "NVDA", "NFLX", "IBM", "INTC">>

\* The moving-average multiselect's options and its default.
MaOptions == <<7, 14, 30>>

MaDefault == <<7, 30>>

sector_map ==
    [s \in {"AAPL", "MSFT", "GOOGL", "META", "NVDA", "IBM", "INTC"} |-> "Technology"]
    @@ ("AMZN" :> "Consumer Discretionary")
    @@ ("TSLA" :> "Automotive")
    @@ ("NFLX" :> "Communication Services")

\* sector_map.get(symbol, "Unknown")
SectorOf(symbol) ==
    IF symbol \in DOMAIN sector_map THEN sector_map[symbol] ELSE "Unknown"

----------------------------------------------------------------------------
(* The price table.  all_data is a record: columns (the column labels in   *)
(* order), Date (the Date column, ascending) and data (the values of the   *)
(* columns the pass reads or writes: the Close columns and the             *)
(* moving-average columns).  The values of the Open, High, Low and Volume  *)
(* columns are not modelled; their labels are.                             *)

\* The price fields of the fetched table, in the fetcher's column order.
Fields == <<"Close", "High", "Low", "Open", "Volume">>

\* '_'.join(col).strip('_') of a (price, ticker) column label.
FlatLabel(price, ticker) ==
    IF ticker = "" THEN price ELSE price \o "_" \o ticker

RECURSIVE FlatColumns(_, _)
FlatColumns(fields, syms) ==
    IF fields = <<>> THEN <<>>
    ELSE [k \in 1..Len(syms) |-> FlatLabel(Head(fields), syms[k])]
         \o FlatColumns(Tail(fields), syms)

CloseCol(symbol) == "Close_" \o symbol

MaCol(symbol, ma) == symbol \o "_MA" \o ToString(ma)

Range(s) == {s[i] : i \in DOMAIN s}

\* all_data[name] = series: a new label is appended, an old one overwritten.
SetColumn(df, name, series) ==
    [df EXCEPT !.columns = IF name \in Range(df.columns) THEN @ ELSE Append(@, name),
               !.data    = (name :> series) @@ @]

EmptyFrame == [columns |-> <<>>, Date |-> <<>>, data |-> <<>>]

\* yf.download(...), the flattening of its column labels and reset_index:
\* n rows with ascending dates 1..n and the given Close columns.
Fetched(syms, n, closes) ==
    [columns |-> <<"Date">> \o FlatColumns(Fields, syms),
     Date    |-> [i \in 1..n |-> i],
     data    |-> closes]

\* Mutant of ToCsv: to_csv() with the index written, an unnamed first column.
ToCsvWithIndex(df) ==
    [header |-> <<"">> \o df.columns, rows |-> [i \in 1..Len(df.Date) |-> df.Date[i]]]

\* all_data.to_csv(index=False): the header row and one row per table row,
\* here its Date cell.
ToCsv(df) == [header |-> df.columns, rows |-> [i \in 1..Len(df.Date) |-> df.Date[i]]]

NoCsv == [header |-> <<>>, rows |-> <<>>]

----------------------------------------------------------------------------
(* The loops of the pass, each as the table or list it leaves behind. *)

\* Chart 1, inner loop: one moving-average column per selected window.
RECURSIVE Chart1Inner(_, _, _)
Chart1Inner(df, symbol, mas) ==
    IF mas = <<>> THEN df
    ELSE Chart1Inner(
             SetColumn(df, MaCol(symbol, Head(mas)),
                       RollingMean(df.data[CloseCol(symbol)], Head(mas))),
             symbol, Tail(mas))

\* Chart 1, outer loop over the selected symbols.
RECURSIVE Chart1Loop(_, _, _)
Chart1Loop(df, syms, mas) ==
    IF syms = <<>> THEN df
    ELSE Chart1Loop(Chart1Inner(df, Head(syms), mas), Tail(syms), mas)

\* Chart 5: one trace per symbol, its y the percentage change in percent.
Chart5Traces(df, syms, fm) ==
    [k \in 1..Len(syms) |->
        [name |-> syms[k] \o " % Change",
         y    |-> Times100(PctChange(df.data[CloseCol(syms[k])], fm))]]

\* Mutant of SectorChanges: every symbol opens an item of its own.
RECURSIVE SectorChangesNoMerge(_, _, _, _)
SectorChangesNoMerge(sc, df, syms, fm) ==
    IF syms = <<>> THEN sc
    ELSE SectorChangesNoMerge(
             Append(sc, [sector  |-> SectorOf(Head(syms)),
                         changes |-> <<PctChange(df.data[CloseCol(Head(syms))], fm)>>]),
             df, Tail(syms), fm)

\* Chart 6, first loop: sector_changes, a dict in insertion order, as the
\* sequence of its items [sector, changes].
RECURSIVE SectorChanges(_, _, _, _)
SectorChanges(sc, df, syms, fm) ==
    IF syms = <<>> THEN sc
    ELSE LET sector     == SectorOf(Head(syms))
             pct_change == PctChange(df.data[CloseCol(Head(syms))], fm)
             next == IF \E k \in 1..Len(sc) : sc[k].sector = sector
                     THEN [k \in 1..Len(sc) |->
                              IF sc[k].sector = sector
                              THEN [sc[k] EXCEPT !.changes = Append(@, pct_change)]
                              ELSE sc[k]]
                     ELSE Append(sc, [sector |-> sector, changes |-> <<pct_change>>])
         IN  SectorChanges(next, df, Tail(syms), fm)

\* Mutant of RowMeans: mean(axis=1, skipna=False), a NaN makes the row NaN.
RowMeansSkipnaFalse(changes) ==
    [i \in 1..Len(changes[1]) |->
        LET row == [j \in 1..Len(changes) |-> changes[j][i]]
        IN  Div(Sum(row), Num(Len(row)))]

\* pd.concat(changes, axis=1).mean(axis=1): the mean of each row, NaN skipped.
RowMeans(changes) ==
    [i \in 1..Len(changes[1]) |->
        NanMean([j \in 1..Len(changes) |-> changes[j][i]])]

\* Mutant of SectorScalar: rounded to 2 decimals, as the prices are.
SectorScalarRound2(comb) == Round(Mul(NanMean(comb), Num(100)), 2)

\* Mutant of SectorScalar: the scaling to percent left out.
SectorScalarNoPercent(comb) == Round(NanMean(comb), 4)

\* round(combined.mean() * 100, 4)
SectorScalar(comb) == Round(Mul(NanMean(comb), Num(100)), 4)

AvgKey == "Average Daily % Change"

\* Chart 6, second loop: the two lists of sector_avg.
SectorAvg(sc) ==
    ("Sector" :> [k \in 1..Len(sc) |-> sc[k].sector])
    @@ (AvgKey :> [k \in 1..Len(sc) |-> SectorScalar(RowMeans(sc[k].changes))])

NoSectorAvg == ("Sector" :> <<>>) @@ (AvgKey :> <<>>)

\* Mutant of IlocLast: iloc[0], the oldest close.
IlocFirst(series) == series[1]

\* close_series.iloc[-1], for a series that is not empty.
IlocLast(series) == series[Len(series)]

NoSummary ==
    [c \in {"Symbol", "Min Close", "Max Close", "Mean Close", "Last Close"} |-> <<>>]

\* The summary loop over a table with at least one row.
SummaryData(df, syms) ==
    LET close(k) == df.data[CloseCol(syms[k])]
        idx == 1..Len(syms)
    IN  ("Symbol" :> [k \in idx |-> syms[k]])
        @@ ("Min Close"  :> [k \in idx |-> Round(NanMin(close(k)), 2)])
        @@ ("Max Close"  :> [k \in idx |-> Round(NanMax(close(k)), 2)])
        @@ ("Mean Close" :> [k \in idx |-> Round(NanMean(close(k)), 2)])
        @@ ("Last Close" :> [k \in idx |-> Round(IlocLast(close(k)), 2)])

\* The summary lists when the first iteration's iloc[-1] raises: what was
\* appended before it.
SummaryBeforeError(df, syms) ==
    LET close == df.data[CloseCol(syms[1])]
    IN  ("Symbol" :> <<syms[1]>>)
        @@ ("Min Close"  :> <<Round(NanMin(close), 2)>>)
        @@ ("Max Close"  :> <<Round(NanMax(close), 2)>>)
        @@ ("Mean Close" :> <<Round(NanMean(close), 2)>>)
        @@ ("Last Close" :> <<>>)

----------------------------------------------------------------------------
(* Inputs. *)

\* The selections of the stock multiselect the model tries, in the order
\* the user picked them.
SymbolChoices ==
    { sel \in { <<>>, <<"AAPL">>, <<"AAPL", "MSFT">>, <<"AMZN", "AAPL">>,
                <<"AAPL", "AMZN", "MSFT">> } :
          Range(sel) \subseteq Range(StockOptions) }

\* The close prices a fetched cell may hold: missing, zero, or a price.
CloseValues == {NaN, Num(0), Num(2), Num(3)}

Series(values, n) == [1..n -> values]

\* The Close columns of a fetched table with n rows.
CloseTables(syms, values, n) ==
    [{CloseCol(syms[k]) : k \in 1..Len(syms)} -> Series(values, n)]

----------------------------------------------------------------------------
(* The pass, one action per section of the script that writes state.       *)
(* Charts 2, 3 and 4 only read the table and draw; they write nothing the  *)
(* later sections read and have no action.                                 *)

Init ==
    /\ pc = "start"
    /\ symbols \in SymbolChoices
    /\ ma_days = MaDefault
    /\ fill_method \in FillMethods
    /\ all_data = EmptyFrame
    /\ csv = NoCsv
    /\ fig5 = <<>>
    /\ sector_changes = <<>>
    /\ combined = <<>>
    /\ sector_avg = NoSectorAvg
    /\ summary_data = NoSummary

\* else: st.warning(...)
Warn ==
    /\ pc = "start"
    /\ symbols = <<>>
    /\ pc' = "done"
    /\ UNCHANGED <<symbols, ma_days, fill_method, all_data, csv, fig5,
                   sector_changes, combined, sector_avg, summary_data>>

\* The fetch and the export of a table of n rows with the given Close columns.
FetchAndExport(n, closes) ==
    /\ pc = "start"
    /\ symbols # <<>>
    /\ all_data' = Fetched(symbols, n, closes)
    /\ csv' = ToCsv(all_data')
    /\ pc' = "chart1"
    /\ UNCHANGED <<symbols, ma_days, fill_method, fig5,
                   sector_changes, combined, sector_avg, summary_data>>

Fetch ==
    /\ pc = "start"
    /\ symbols # <<>>
    /\ \E n \in 0..(MaxCells \div Len(symbols)) :
           \E closes \in CloseTables(symbols, CloseValues, n) :
               FetchAndExport(n, closes)

Chart1 ==
    /\ pc = "chart1"
    /\ all_data' = Chart1Loop(all_data, symbols, ma_days)
    /\ pc' = "chart5"
    /\ UNCHANGED <<symbols, ma_days, fill_method, csv, fig5,
                   sector_changes, combined, sector_avg, summary_data>>

Chart5 ==
    /\ pc = "chart5"
    /\ fig5' = Chart5Traces(all_data, symbols, fill_method)
    /\ pc' = "chart6"
    /\ UNCHANGED <<symbols, ma_days, fill_method, all_data, csv,
                   sector_changes, combined, sector_avg, summary_data>>

Chart6 ==
    /\ pc = "chart6"
    /\ sector_changes' = SectorChanges(<<>>, all_data, symbols, fill_method)
    /\ combined' = [k \in 1..Len(sector_changes') |->
                       RowMeans(sector_changes'[k].changes)]
    /\ sector_avg' = SectorAvg(sector_changes')
    /\ pc' = "summary"
    /\ UNCHANGED <<symbols, ma_days, fill_method, all_data, csv, fig5,
                   summary_data>>

SummaryTable ==
    /\ pc = "summary"
    /\ Len(all_data.Date) > 0
    /\ summary_data' = SummaryData(all_data, symbols)
    /\ pc' = "done"
    /\ UNCHANGED <<symbols, ma_days, fill_method, all_data, csv, fig5,
                   sector_changes, combined, sector_avg>>

\* close_series.iloc[-1] on a table without rows: IndexError, the script stops.
SummaryIndexError ==
    /\ pc = "summary"
    /\ Len(all_data.Date) = 0
    /\ summary_data' = SummaryBeforeError(all_data, symbols)
    /\ pc' = "crashed"
    /\ UNCHANGED <<symbols, ma_days, fill_method, all_data, csv, fig5,
                   sector_changes, combined, sector_avg>>

Next ==
    \/ Warn
    \/ Fetch
    \/ Chart1
    \/ Chart5
    \/ Chart6
    \/ SummaryTable
    \/ SummaryIndexError

Spec == Init /\ [][Next]_vars

----------------------------------------------------------------------------
(* The fetch, the export and chart 1 alone, over close series long enough  *)
(* for the shortest moving-average window.                                 *)

\* The selections of the moving-average multiselect the model tries.
MaChoices ==
    { sel \in { <<>>, <<7>>, <<7, 30>>, <<14, 7>> } :
          Range(sel) \subseteq Range(MaOptions) }

\* One symbol with a series of up to MaxRowsMA prices, some missing, or two
\* symbols with a full window of prices each.
LongTables(syms) ==
    IF Len(syms) = 1
    THEN UNION { CloseTables(syms, {NaN, Num(2), Num(3)}, n) : n \in 0..MaxRowsMA }
    ELSE CloseTables(syms, {Num(2), Num(3)}, MaOptions[1])

InitChart1 ==
    /\ pc = "start"
    /\ symbols \in { <<"AAPL">>, <<"MSFT", "AAPL">> }
    /\ ma_days \in MaChoices
    /\ fill_method = "pad"
    /\ all_data = EmptyFrame
    /\ csv = NoCsv
    /\ fig5 = <<>>
    /\ sector_changes = <<>>
    /\ combined = <<>>
    /\ sector_avg = NoSectorAvg
    /\ summary_data = NoSummary

FetchLong ==
    /\ pc = "start"
    /\ symbols # <<>>
    /\ \E closes \in LongTables(symbols) :
           FetchAndExport(Len(closes[CloseCol(symbols[1])]), closes)

NextChart1 ==
    \/ FetchLong
    \/ Chart1

Chart1Spec == InitChart1 /\ [][NextChart1]_vars

----------------------------------------------------------------------------
(* Claims. *)

Rows == Len(all_data.Date)

Close(symbol) == all_data.data[CloseCol(symbol)]

\* The arithmetic mean of all the elements of xs; NaN when one of them is.
ArithmeticMean(xs) == Div(Sum(xs), Num(Len(xs)))

\* C1: once chart 1 is drawn, the moving-average column of every selected
\* symbol and every selected window w has one entry per row, is null at
\* every (0-based) index below w - 1 and, from index w - 1 on, is the
\* arithmetic mean of the w closes of that symbol ending at the index.
C1_MovingAverage ==
    pc = "chart5" =>
        \A k \in 1..Len(symbols) : \A j \in 1..Len(ma_days) :
            LET w   == ma_days[j]
                col == MaCol(symbols[k], w)
            IN  /\ col \in DOMAIN all_data.data
                /\ Len(all_data.data[col]) = Rows
                /\ \A i \in 1..Rows :
                       all_data.data[col][i] =
                           IF i < w THEN NaN
                           ELSE ArithmeticMean(SubSeq(Close(symbols[k]), i - w + 1, i))

\* C1's case: two symbols whose 7-day averages are defined and differ, and a
\* window that reaches past the table.
C1_Witness ==
    /\ pc = "chart5"
    /\ Len(symbols) = 2
    /\ ma_days = <<7, 30>>
    /\ Rows = 7
    /\ IsFinite(all_data.data[MaCol(symbols[1], 7)][7])
    /\ IsFinite(all_data.data[MaCol(symbols[2], 7)][7])
    /\ all_data.data[MaCol(symbols[1], 7)][7] # all_data.data[MaCol(symbols[2], 7)][7]
    /\ IsNaN(all_data.data[MaCol(symbols[1], 30)][7])

\* The labels of the raw columns of the table: Date and one per price field
\* and symbol.
RawLabels == {"Date"} \cup {f \o "_" \o s : f \in Range(Fields), s \in Range(symbols)}

MaLabels == {MaCol(s, w) : s \in Range(symbols), w \in Range(ma_days)}

CsvRowsByDate ==
    /\ Len(csv.rows) = Rows
    /\ \A i \in 1..Rows : csv.rows[i] = all_data.Date[i]
    /\ \A i \in 1..Rows : \A j \in 1..Rows : i < j => csv.rows[i] < csv.rows[j]

\* C7 as claimed: the export of a pass names every raw column and every
\* computed column of the pass in its header and has one row per date,
\* ascending.
C7_ExportFullTable ==
    pc = "chart5" =>
        /\ RawLabels \subseteq Range(csv.header)
        /\ MaLabels \subseteq Range(csv.header)
        /\ CsvRowsByDate

\* C7, amended: the export of a pass is the raw table: its header names Date
\* and every raw column and none of the moving-average columns, which the
\* pass adds to the table after the export; it has one row per date,
\* ascending.
C7_ExportRawTable ==
    pc \in {"chart1", "chart5"} =>
        /\ Range(csv.header) = RawLabels
        /\ Len(csv.header) = Cardinality(RawLabels)
        /\ MaLabels \cap Range(csv.header) = {}
        /\ pc = "chart5" => MaLabels \subseteq Range(all_data.columns)
        /\ CsvRowsByDate

\* C7's case: a pass that computed moving-average columns over several dates.
C7_Witness ==
    /\ pc = "chart5"
    /\ Rows > 1
    /\ Len(symbols) = 2
    /\ Len(ma_days) = 2
    /\ Len(all_data.columns) = Len(csv.header) + 4

----------------------------------------------------------------------------
(* Claims on the percentage change (chart 5). *)

AfterChart5 == pc \in {"chart6", "summary", "done", "crashed"}

AfterChart6 == pc \in {"summary", "done", "crashed"}

\* (cur - prev) / prev * 100, in float arithmetic: NaN when either is.
PercentFormula(cur, prev) == Mul(Div(Sub(cur, prev), prev), Num(100))

\* Each trace of chart 5 has one entry per row, the first of them undefined.
Chart5Shape ==
    /\ Len(fig5) = Len(symbols)
    /\ \A k \in 1..Len(symbols) :
           /\ Len(fig5[k].y) = Len(Close(symbols[k]))
           /\ Len(fig5[k].y) > 0 => IsNaN(fig5[k].y[1])

\* C2 as claimed: for every close sequence the output has the length of the
\* input, output[0] is undefined and, for every i > 0 with close[i-1] != 0,
\* output[i] = (close[i] - close[i-1]) / close[i-1] * 100.
C2_PercentChangeEverySequence ==
    AfterChart5 =>
        /\ Chart5Shape
        /\ \A k \in 1..Len(symbols) :
               LET close == Close(symbols[k]) IN
               \A i \in 2..Len(close) :
                   close[i - 1] # Num(0) =>
                       fig5[k].y[i] = PercentFormula(close[i], close[i - 1])

\* C2, amended: the output has the length of the input, output[0] is
\* undefined and, for every i > 0 where close[i] and close[i-1] are both
\* present and close[i-1] != 0, output[i] is
\* (close[i] - close[i-1]) / close[i-1] * 100.
C2_PercentChangePresentCloses ==
    AfterChart5 =>
        /\ Chart5Shape
        /\ \A k \in 1..Len(symbols) :
               LET close == Close(symbols[k]) IN
               \A i \in 2..Len(close) :
                   (~IsNaN(close[i]) /\ ~IsNaN(close[i - 1]) /\ close[i - 1] # Num(0)) =>
                       fig5[k].y[i] = PercentFormula(close[i], close[i - 1])

\* C2's case: a series with a missing close and, elsewhere, two present
\* closes in a row whose change is neither zero nor a whole percent.
C2_Witness ==
    /\ pc = "chart6"
    /\ fill_method = "pad"
    /\ \E k \in 1..Len(symbols) :
           LET close == Close(symbols[k]) IN
           /\ \E i \in 1..Len(close) : IsNaN(close[i])
           /\ \E i \in 2..Len(close) :
                  /\ close[i] = Num(2)
                  /\ close[i - 1] = Num(3)
                  /\ fig5[k].y[i] = <<-100, 3>>

\* C5 as claimed: whenever close[i-1] is zero the percentage change at i is
\* the undefined marker, and the per-date sector means and the sector
\* scalars, computed from the remaining defined values, are never infinite.
C5_ZeroCloseGivesUndefined ==
    /\ AfterChart5 =>
           \A k \in 1..Len(symbols) :
               \A i \in 2..Len(Close(symbols[k])) :
                   Close(symbols[k])[i - 1] = Num(0) => IsNaN(fig5[k].y[i])
    /\ AfterChart6 =>
           \A r \in 1..Len(combined) :
               /\ \A i \in 1..Len(combined[r]) :
                      IsFinite(combined[r][i]) \/ IsNaN(combined[r][i])
               /\ IsFinite(sector_avg[AvgKey][r]) \/ IsNaN(sector_avg[AvgKey][r])

----------------------------------------------------------------------------
(* Claims on the sector aggregation (chart 6). *)

\* The label of a requested symbol: its sector_map entry, or "Unknown".
LabelOf(symbol) ==
    IF \E t \in DOMAIN sector_map : t = symbol THEN sector_map[symbol] ELSE "Unknown"

\* The positions in the symbol list at which a label is met for the first time.
FirstMet == {k \in 1..Len(symbols) :
                \A j \in 1..(k - 1) : LabelOf(symbols[j]) # LabelOf(symbols[k])}

\* The position in the symbol list of the r-th label met.
RECURSIVE NthFirstMet(_)
NthFirstMet(r) ==
    IF r = 1 THEN CHOOSE k \in FirstMet : \A j \in FirstMet : k <= j
    ELSE CHOOSE k \in FirstMet :
             /\ k > NthFirstMet(r - 1)
             /\ \A j \in FirstMet : j > NthFirstMet(r - 1) => k <= j

\* The positions of the symbols that carry a label, in the list's order.
RECURSIVE PositionsFrom(_, _)
PositionsFrom(label, k) ==
    IF k > Len(symbols) THEN <<>>
    ELSE (IF LabelOf(symbols[k]) = label THEN <<k>> ELSE <<>>)
         \o PositionsFrom(label, k + 1)

MemberPositions(label) == PositionsFrom(label, 1)

\* The percentage changes, in percent, of a sector's members on date i.
MemberPercents(label, i) ==
    LET at == MemberPositions(label)
    IN  [m \in 1..Len(at) |-> fig5[at[m]].y[i]]

\* The per-date mean of a sector: over its members' defined values.
PerDateMean(label) ==
    [i \in 1..Rows |-> NanMean(MemberPercents(label, i))]

\* The example of the claim: members with the changes 2%, -2% and 4%, 0%
\* give a scalar of 1.
C3_Example ==
    SectorScalar(RowMeans(<< <<Norm(2, 100), Norm(-2, 100)>>,
                             <<Norm(4, 100), Num(0)>> >>)) = Num(1)

\* C3: the scalar reported for every sector is the mean over the dates of the
\* per-date mean, over the sector's members, of their percentage changes in
\* percent (undefined entries left out of both means), rounded to 4 decimals.
C3_SectorScalar ==
    /\ C3_Example
    /\ AfterChart6 =>
        /\ Len(sector_avg["Sector"]) = Len(sector_avg[AvgKey])
        /\ \A r \in 1..Len(sector_avg["Sector"]) :
               sector_avg[AvgKey][r] =
                   Round(NanMean(PerDateMean(sector_avg["Sector"][r])), 4)

\* C3's case: a sector of two members whose scalar is finite and was rounded.
C3_Witness ==
    /\ pc = "summary"
    /\ \E r \in 1..Len(sector_avg["Sector"]) :
           /\ Len(sector_changes[r].changes) = 2
           /\ IsFinite(sector_avg[AvgKey][r])
           /\ sector_avg[AvgKey][r] # NanMean(PerDateMean(sector_avg["Sector"][r]))

\* The defined entries of a row.
Defined(row) == SelectSeq(row, LAMBDA x : x # NaN)

\* The values of a sector's member series, as the aggregation holds them, on
\* date i.
ChangesRow(r, i) ==
    [m \in 1..Len(sector_changes[r].changes) |-> sector_changes[r].changes[m][i]]

\* C4: in every sector with two or more members, on every date on which a
\* member's change is defined, the per-date value is the mean of the defined
\* member values of that date, and is not null.
C4_NullAwareSectorMean ==
    AfterChart6 =>
        /\ Len(combined) = Len(sector_changes)
        /\ \A r \in 1..Len(sector_changes) :
               Len(sector_changes[r].changes) >= 2 =>
                   /\ Len(combined[r]) = Rows
                   /\ \A i \in 1..Rows :
                          Defined(ChangesRow(r, i)) # <<>> =>
                              /\ ~IsNaN(combined[r][i])
                              /\ combined[r][i] = ArithmeticMean(Defined(ChangesRow(r, i)))

\* C4's case: a date on which one member of a two-member sector is null and
\* the other is not.
C4_Witness ==
    /\ pc = "summary"
    /\ \E r \in 1..Len(sector_changes) :
           /\ Len(sector_changes[r].changes) = 2
           /\ \E i \in 1..Rows :
                  /\ IsNaN(sector_changes[r].changes[1][i])
                  /\ IsFinite(sector_changes[r].changes[2][i])
                  /\ sector_changes[r].changes[2][i] # Num(0)
                  /\ combined[r][i] = sector_changes[r].changes[2][i]

\* C9: the sector output holds one record per distinct label of the requested
\* symbols (a symbol's label is its sector_map entry, "Unknown" without one),
\* in the order in which the labels are first met in the symbol list, and
\* the series of every requested symbol is in the record of its label and in
\* no other.
C9_SectorGrouping ==
    AfterChart6 =>
        /\ Len(sector_avg["Sector"]) = Cardinality(FirstMet)
        /\ Len(sector_changes) = Cardinality(FirstMet)
        /\ \A r \in 1..Len(sector_avg["Sector"]) :
               LET label == LabelOf(symbols[NthFirstMet(r)])
                   at    == MemberPositions(label)
               IN  /\ sector_avg["Sector"][r] = label
                   /\ sector_changes[r].sector = label
                   /\ Len(sector_changes[r].changes) = Len(at)
                   /\ \A m \in 1..Len(at) :
                          Times100(sector_changes[r].changes[m]) = fig5[at[m]].y

\* C9's case: three symbols, the first and the last of one sector, and the
\* labels not in alphabetical order.
C9_Witness ==
    /\ pc = "summary"
    /\ symbols = <<"AAPL", "AMZN", "MSFT">>
    /\ Rows = 2
    /\ sector_avg["Sector"] = <<"Technology", "Consumer Discretionary">>
    /\ Len(sector_changes[1].changes) = 2
    /\ sector_changes[1].changes[1] # sector_changes[1].changes[2]

\* The mean of a symbol's own percentage changes, over its defined entries.
OwnMean(k) == NanMean(fig5[k].y)

\* The mean, over the members of a sector, of each member's own mean.
MeanOfOwnMeans(label) ==
    LET at == MemberPositions(label)
    IN  NanMean([m \in 1..Len(at) |-> OwnMean(at[m])])

\* C10 as claimed: the value reported for every sector equals the mean, over
\* the sector's symbols, of each symbol's own mean daily percentage change
\* over its defined entries.
C10_MeanOfSymbolMeans ==
    AfterChart6 =>
        \A r \in 1..Len(sector_avg["Sector"]) :
            sector_avg[AvgKey][r] = Round(MeanOfOwnMeans(sector_avg["Sector"][r]), 4)

\* The members of the r-th sector have their changes defined on the same dates.
SameDefinedDates(r) ==
    \A m \in 1..Len(sector_changes[r].changes) : \A i \in 1..Rows :
        IsNaN(sector_changes[r].changes[m][i]) = IsNaN(sector_changes[r].changes[1][i])

\* C10, amended: for every sector whose member symbols have their percentage
\* change defined on the same dates, and so for every sector with a single
\* member, the value reported equals the mean, over the sector's symbols, of
\* each symbol's own mean daily percentage change over its defined entries.
C10_MeanOfSymbolMeansSameDates ==
    AfterChart6 =>
        \A r \in 1..Len(sector_avg["Sector"]) :
            SameDefinedDates(r) =>
                sector_avg[AvgKey][r] = Round(MeanOfOwnMeans(sector_avg["Sector"][r]), 4)

\* C10's case: a sector of two members with different series, defined on the
\* same two dates, and a sector of one member, both with a nonzero scalar.
C10_Witness ==
    /\ pc = "summary"
    /\ Rows = 2
    /\ Len(sector_changes) = 2
    /\ Len(sector_changes[1].changes) = 2
    /\ Len(sector_changes[2].changes) = 1
    /\ SameDefinedDates(1)
    /\ sector_changes[1].changes[1] # sector_changes[1].changes[2]
    /\ IsFinite(sector_avg[AvgKey][1]) /\ sector_avg[AvgKey][1] # Num(0)
    /\ IsFinite(sector_avg[AvgKey][2]) /\ sector_avg[AvgKey][2] # Num(0)

----------------------------------------------------------------------------
(* Claims on the summary table and on the end of the pass. *)

\* The closes of a symbol that are present.
PresentCloses(symbol) == Defined(Close(symbol))

\* v is the least (greatest) of the values of xs.
IsLeast(v, xs) ==
    /\ \E i \in 1..Len(xs) : xs[i] = v
    /\ \A i \in 1..Len(xs) : ~Less(xs[i], v)

IsGreatest(v, xs) ==
    /\ \E i \in 1..Len(xs) : xs[i] = v
    /\ \A i \in 1..Len(xs) : ~Less(v, xs[i])

\* The example of the claim: the closes 10, 20, 5, 15 give min 5, max 20,
\* mean 12.5 and last 15.
C6_Example ==
    LET df  == Fetched(<<"AAPL">>, 4,
                       CloseCol("AAPL") :> <<Num(10), Num(20), Num(5), Num(15)>>)
        row == SummaryData(df, <<"AAPL">>)
    IN  /\ row["Min Close"] = <<Num(5)>>
        /\ row["Max Close"] = <<Num(20)>>
        /\ row["Mean Close"] = << <<25, 2>> >>
        /\ row["Last Close"] = <<Num(15)>>

\* C6: for a table with at least one row, the summary holds one row per
\* selected symbol, in order, with the least, the greatest and the
\* arithmetic mean of the symbol's present closes and the close of the most
\* recent date, each rounded to 2 decimals.
C6_Summary ==
    /\ C6_Example
    /\ (pc = "done" /\ symbols # <<>>) =>
        /\ Rows > 0
        /\ \A c \in DOMAIN summary_data : Len(summary_data[c]) = Len(symbols)
        /\ \A k \in 1..Len(symbols) :
               LET xs == PresentCloses(symbols[k]) IN
               /\ summary_data["Symbol"][k] = symbols[k]
               /\ summary_data["Last Close"][k] = Round(Close(symbols[k])[Rows], 2)
               /\ xs = <<>> =>
                      /\ IsNaN(summary_data["Min Close"][k])
                      /\ IsNaN(summary_data["Max Close"][k])
                      /\ IsNaN(summary_data["Mean Close"][k])
               /\ xs # <<>> =>
                      /\ \E v \in Range(xs) :
                             IsLeast(v, xs) /\ summary_data["Min Close"][k] = Round(v, 2)
                      /\ \E v \in Range(xs) :
                             IsGreatest(v, xs) /\ summary_data["Max Close"][k] = Round(v, 2)
                      /\ summary_data["Mean Close"][k] = Round(ArithmeticMean(xs), 2)

\* C6's case: a symbol with a missing close, different least, greatest, mean
\* and last closes, and a mean that had to be rounded.
C6_Witness ==
    /\ pc = "done"
    /\ \E k \in 1..Len(symbols) :
           /\ \E i \in 1..Rows : IsNaN(Close(symbols[k])[i])
           /\ summary_data["Min Close"][k] = Num(2)
           /\ summary_data["Max Close"][k] = Num(3)
           /\ summary_data["Last Close"][k] = Num(2)
           /\ Close(symbols[k])[1] = Num(3)
           /\ summary_data["Mean Close"][k] = <<267, 100>>

\* C8 as claimed: a pass over a non-empty selection whose fetch returned no
\* rows raises no exception, and ends with the summary and the sector
\* aggregate not computed.
C8_NoCrashOnMissingData ==
    (pc # "start" /\ symbols # <<>> /\ Rows = 0) =>
        /\ pc # "crashed"
        /\ pc = "done" => (sector_avg = NoSectorAvg /\ summary_data = NoSummary)

============================================================================
